---- MODULE Spec2Model ----
(***************************************************************************)
(* A model of the movie-ranking program: the scoring of a movie against    *)
(* the preferences of a list of people (calculateScore), the ranking       *)
(* (rankMovies), the two string conversions it relies on                   *)
(* (runtimeToMinutes, getRottenTomatoesScore) and the main script that     *)
(* fetches the prompt and the movie details, ranks and submits.            *)
(*                                                                         *)
(* JavaScript strings are sequences of one-character strings.  JavaScript  *)
(* numbers are records: a finite value is an exact fraction n/d in lowest  *)
(* terms (the rounding of IEEE doubles is not modelled), and Infinity,     *)
(* -Infinity and NaN are values of their own, with the arithmetic and the  *)
(* comparisons the language gives them.  The sign of zero is not modelled. *)
(***************************************************************************)
EXTENDS Integers, Sequences, FiniteSets, Bags, TLC

VARIABLES pc, runtime, minutes, movie, people, idx, score,
          promptMovies, fetch, movieDetails, rankedMovies, ranking, posted, achieved

vars == <<pc, runtime, minutes, movie, people, idx, score,
          promptMovies, fetch, movieDetails, rankedMovies, ranking, posted, achieved>>

(***************************************************************************)
(* Bounds of the model.                                                    *)
(***************************************************************************)
\* longest generated runtime string
MaxRuntimeLen == 4
\* most movies in one prompt
MaxMovies == 4
\* most people in one prompt
MaxPeople == 2

(***************************************************************************)
(* JavaScript numbers.                                                     *)
(***************************************************************************)
Abs(x) == IF x < 0 THEN -x ELSE x

RECURSIVE GCD(_, _)
GCD(a, b) == IF b = 0 THEN a ELSE GCD(b, a % b)

NaN == [k |-> "nan", n |-> 0, d |-> 1]
PosInf == [k |-> "inf", n |-> 1, d |-> 1]
NegInf == [k |-> "inf", n |-> -1, d |-> 1]

\* the number n/d, d > 0, in lowest terms
Frac(n, d) ==
    LET g == GCD(Abs(n), d)
    IN  [k |-> "fin", n |-> n \div g, d |-> d \div g]

Fin(n) == Frac(n, 1)
Zero == Fin(0)

Sign(x) == IF x.n > 0 THEN 1 ELSE IF x.n < 0 THEN -1 ELSE 0

\* x + y
NumAdd(x, y) ==
    IF x.k = "nan" \/ y.k = "nan" THEN NaN
    ELSE IF x.k = "inf" /\ y.k = "inf" THEN (IF x.n = y.n THEN x ELSE NaN)
    ELSE IF x.k = "inf" THEN x
    ELSE IF y.k = "inf" THEN y
    ELSE Frac(x.n * y.d + y.n * x.d, x.d * y.d)

\* -x
NumNeg(x) == [x EXCEPT !.n = -x.n]

\* x - y
NumSub(x, y) == NumAdd(x, NumNeg(y))

\* x * y
NumMul(x, y) ==
    IF x.k = "nan" \/ y.k = "nan" THEN NaN
    ELSE IF x.k = "inf" \/ y.k = "inf"
         THEN (IF Sign(x) * Sign(y) = 0 THEN NaN
               ELSE IF Sign(x) * Sign(y) > 0 THEN PosInf ELSE NegInf)
    ELSE Frac(x.n * y.n, x.d * y.d)

\* x / c for an array length c >= 0
NumDivCount(x, c) ==
    IF x.k = "nan" THEN NaN
    ELSE IF c = 0
         THEN (IF Sign(x) = 0 THEN NaN ELSE IF Sign(x) > 0 THEN PosInf ELSE NegInf)
    ELSE IF x.k = "inf" THEN x
    ELSE Frac(x.n, x.d * c)

\* x < y: false when either side is NaN
NumLt(x, y) ==
    IF x.k = "nan" \/ y.k = "nan" THEN FALSE
    ELSE IF x.k = "inf" THEN x.n < 0 /\ ~(y.k = "inf" /\ y.n < 0)
    ELSE IF y.k = "inf" THEN y.n > 0
    ELSE x.n * y.d < y.n * x.d

\* x >= y: false when either side is NaN
NumGeq(x, y) ==
    IF x.k = "nan" \/ y.k = "nan" THEN FALSE ELSE ~NumLt(x, y)

\* x || 0: NaN and 0 are falsy
OrZero(x) == IF x.k = "nan" THEN Zero ELSE x

(***************************************************************************)
(* JavaScript strings.                                                     *)
(***************************************************************************)
\* the characters of the model, in the order of their code units
Alphabet == <<" ", "%", ",", "-", ".", "/", "0", "1", "2", "3", "4", "5", "6", "7", "8", "9", "A", "B", "C", "D", "E", "F", "G", "H", "I", "J", "K", "L", "M", "N", "O", "P", "Q", "R", "S", "T", "U", "V", "W", "X", "Y", "Z", "a", "b", "c", "d", "e", "f", "g", "h", "i", "j", "k", "l", "m", "n", "o", "p", "q", "r", "s", "t", "u", "v", "w", "x", "y", "z">>

Digits == <<"0", "1", "2", "3", "4", "5", "6", "7", "8", "9">>

UpperLetters == <<"A", "B", "C", "D", "E", "F", "G", "H", "I", "J", "K", "L", "M", "N", "O", "P", "Q", "R", "S", "T", "U", "V", "W", "X", "Y", "Z">>

LowerLetters == <<"a", "b", "c", "d", "e", "f", "g", "h", "i", "j", "k", "l", "m", "n", "o", "p", "q", "r", "s", "t", "u", "v", "w", "x", "y", "z">>

IndexIn(c, s) == CHOOSE i \in 1..Len(s) : s[i] = c

IsIn(c, s) == \E i \in 1..Len(s) : s[i] = c

CharCode(c) == IndexIn(c, Alphabet)

DigitValue(c) == IndexIn(c, Digits) - 1

LowerChar(c) == IF IsIn(c, UpperLetters) THEN LowerLetters[IndexIn(c, UpperLetters)] ELSE c

\* s.toLowerCase()
ToLowerCase(s) == [i \in 1..Len(s) |-> LowerChar(s[i])]

\* s.substring(from - 1): the characters of s from position from on
Tail_(s, from) == SubSeq(s, from, Len(s))

\* whether sub stands in s at position i
MatchAt(s, sub, i) ==
    /\ i + Len(sub) - 1 <= Len(s)
    /\ \A j \in 1..Len(sub) : s[i + j - 1] = sub[j]

\* s.indexOf(sub) + 1, and 0 when sub does not occur
IndexOf(s, sub) ==
    IF \E i \in 1..(Len(s) + 1) : MatchAt(s, sub, i)
    THEN CHOOSE i \in 1..(Len(s) + 1) :
            MatchAt(s, sub, i) /\ \A j \in 1..(i - 1) : ~MatchAt(s, sub, j)
    ELSE 0

\* s.includes(sub)
StrIncludes(s, sub) == \E i \in 1..(Len(s) + 1 - Len(sub)) : MatchAt(s, sub, i)

\* s.split(sep) for a separator that is not empty
RECURSIVE Split(_, _)
Split(s, sep) ==
    LET i == IndexOf(s, sep)
    IN  IF i = 0 THEN <<s>>
        ELSE <<SubSeq(s, 1, i - 1)>> \o Split(Tail_(s, i + Len(sep)), sep)

\* s.replace(c, ''): the first occurrence only
ReplaceFirst(s, sub) ==
    LET i == IndexOf(s, sub)
    IN  IF i = 0 THEN s ELSE SubSeq(s, 1, i - 1) \o Tail_(s, i + Len(sub))

\* a <= b on strings: by code units, a prefix before its extensions
RECURSIVE StrLeq(_, _)
StrLeq(a, b) ==
    IF a = <<>> THEN TRUE
    ELSE IF b = <<>> THEN FALSE
    ELSE IF CharCode(a[1]) < CharCode(b[1]) THEN TRUE
    ELSE IF CharCode(a[1]) > CharCode(b[1]) THEN FALSE
    ELSE StrLeq(Tail(a), Tail(b))

\* the value of the longest run of digits that starts s, and how long it is
RECURSIVE DigitRun(_, _, _)
DigitRun(s, i, acc) ==
    IF i <= Len(s) /\ IsIn(s[i], Digits)
    THEN DigitRun(s, i + 1, [v |-> acc.v * 10 + DigitValue(s[i]), len |-> acc.len + 1])
    ELSE acc

RECURSIVE SkipSpaces(_)
SkipSpaces(s) == IF s # <<>> /\ s[1] = " " THEN SkipSpaces(Tail(s)) ELSE s

\* parseInt(s, 10): leading white space, an optional sign, then digits; NaN
\* when no digit follows.  (The strings of the model hold no "0x" prefix,
\* which parseInt without a radix would read as hexadecimal.)
ParseInt(s) ==
    LET t == SkipSpaces(s)
        neg == t # <<>> /\ t[1] = "-"
        u == IF neg THEN Tail(t) ELSE t
        r == DigitRun(u, 1, [v |-> 0, len |-> 0])
    IN  IF r.len = 0 THEN NaN ELSE Fin(IF neg THEN -r.v ELSE r.v)

(***************************************************************************)
(* runtimeToMinutes                                                        *)
(***************************************************************************)
\* const [hours, minutes] = runtime.split("h").map(part => parseInt(part, 10) || 0);
\* return hours * 60 + minutes;
\* A split without "h" has one part: minutes is undefined, and a number plus
\* undefined is NaN.
runtimeToMinutes(s) ==
    LET parts == Split(s, <<"h">>)
        nums == [i \in 1..Len(parts) |-> OrZero(ParseInt(parts[i]))]
        hours == nums[1]
    IN  IF Len(nums) >= 2
        THEN NumAdd(NumMul(hours, Fin(60)), nums[2])
        ELSE NaN

(***************************************************************************)
(* getRottenTomatoesScore                                                  *)
(***************************************************************************)
RottenTomatoes == <<"R", "o", "t", "t", "e", "n", " ", "T", "o", "m", "a", "t", "o", "e", "s">>

\* movie.ratings.find(r => r.source === "Rotten Tomatoes"): the position of the
\* first such rating, 0 when there is none
FindRating(ratings) ==
    IF \E i \in 1..Len(ratings) : ratings[i].source = RottenTomatoes
    THEN CHOOSE i \in 1..Len(ratings) :
            /\ ratings[i].source = RottenTomatoes
            /\ \A j \in 1..(i - 1) : ratings[j].source # RottenTomatoes
    ELSE 0

\* getRottenTomatoesScore with a missing rating read as not a number
getRottenTomatoesScoreMissingNaN(m) ==
    LET i == FindRating(m.ratings)
    IN  IF i # 0
        THEN ParseInt(ReplaceFirst(m.ratings[i].value, <<"%">>))
        ELSE NaN

getRottenTomatoesScore(m) ==
    LET i == FindRating(m.ratings)
    IN  IF i # 0
        THEN ParseInt(ReplaceFirst(m.ratings[i].value, <<"%">>))
        ELSE Zero

(***************************************************************************)
(* calculateScore                                                          *)
(***************************************************************************)
Criteria == {"afterYear", "beforeYear", "maximumAgeRating", "shorterThan",
             "favoriteGenre", "leastFavoriteDirector", "favoriteActors",
             "favoritePlotElements", "minimumRottenTomatoesScore"}

\* prefs.c is present (an object, so truthy)
Has(prefs, c) == c \in DOMAIN prefs

\* array.includes(x)
ArrIncludes(arr, x) == \E i \in 1..Len(arr) : arr[i] = x

AfterYearStep(s, m, prefs) ==
    IF Has(prefs, "afterYear") /\ NumGeq(ParseInt(m.year), prefs.afterYear.value)
    THEN NumAdd(s, prefs.afterYear.weight)
    ELSE s

BeforeYearStep(s, m, prefs) ==
    IF Has(prefs, "beforeYear") /\ NumLt(ParseInt(m.year), prefs.beforeYear.value)
    THEN NumAdd(s, prefs.beforeYear.weight)
    ELSE s

MaximumAgeRatingStep(s, m, prefs) ==
    IF Has(prefs, "maximumAgeRating") /\ StrLeq(m.rated, prefs.maximumAgeRating.value)
    THEN NumAdd(s, prefs.maximumAgeRating.weight)
    ELSE s

ShorterThanStep(s, m, prefs) ==
    IF /\ Has(prefs, "shorterThan")
       /\ NumLt(runtimeToMinutes(m.runtime), runtimeToMinutes(prefs.shorterThan.value))
    THEN NumAdd(s, prefs.shorterThan.weight)
    ELSE s

FavoriteGenreStep(s, m, prefs) ==
    IF /\ Has(prefs, "favoriteGenre")
       /\ StrIncludes(ToLowerCase(m.genre), prefs.favoriteGenre.value)
    THEN NumAdd(s, prefs.favoriteGenre.weight)
    ELSE s

LeastFavoriteDirectorStep(s, m, prefs) ==
    IF Has(prefs, "leastFavoriteDirector") /\ m.director = prefs.leastFavoriteDirector.value
    THEN NumSub(s, prefs.leastFavoriteDirector.weight)
    ELSE s

\* movie.actors.split(", ").filter(actor => favoriteActors.includes(actor)).length
MatchingActors(m, favoriteActors) ==
    LET movieActors == Split(m.actors, <<",", " ">>)
    IN  Cardinality({i \in 1..Len(movieActors) : ArrIncludes(favoriteActors, movieActors[i])})

\* prefs.favoriteActors.weight / matchingActors.length
FavoriteActorsContribution(m, pref) ==
    NumDivCount(pref.weight, MatchingActors(m, pref.value))

\* FavoriteActorsStep with an absent criterion read as an empty list of weight 0
FavoriteActorsStepUnguarded(s, m, prefs) ==
    IF Has(prefs, "favoriteActors")
    THEN NumAdd(s, FavoriteActorsContribution(m, prefs.favoriteActors))
    ELSE NumAdd(s, FavoriteActorsContribution(m, [value |-> <<>>, weight |-> Zero]))

FavoriteActorsStep(s, m, prefs) ==
    IF Has(prefs, "favoriteActors")
    THEN NumAdd(s, FavoriteActorsContribution(m, prefs.favoriteActors))
    ELSE s

\* MatchingElements without element.toLowerCase()
MatchingElementsCaseSensitive(m, plotElements) ==
    Cardinality({i \in 1..Len(plotElements) :
                    StrIncludes(ToLowerCase(m.plot), plotElements[i])})

\* plotElements.filter(element =>
\*     movie.plot.toLowerCase().includes(element.toLowerCase())).length
MatchingElements(m, plotElements) ==
    Cardinality({i \in 1..Len(plotElements) :
                    StrIncludes(ToLowerCase(m.plot), ToLowerCase(plotElements[i]))})

\* matchingElements.length * prefs.favoritePlotElements.weight
FavoritePlotElementsContribution(m, pref) ==
    NumMul(Fin(MatchingElements(m, pref.value)), pref.weight)

FavoritePlotElementsStep(s, m, prefs) ==
    IF Has(prefs, "favoritePlotElements")
    THEN NumAdd(s, FavoritePlotElementsContribution(m, prefs.favoritePlotElements))
    ELSE s

\* rtScore !== null holds of every number
MinimumRottenTomatoesScoreStep(s, m, prefs) ==
    IF /\ Has(prefs, "minimumRottenTomatoesScore")
       /\ NumGeq(getRottenTomatoesScore(m), prefs.minimumRottenTomatoesScore.value)
    THEN NumAdd(s, prefs.minimumRottenTomatoesScore.weight)
    ELSE s

\* the body of the loop over people: the score after one person
PersonScore(s, m, prefs) ==
    LET s1 == AfterYearStep(s, m, prefs)
        s2 == BeforeYearStep(s1, m, prefs)
        s3 == MaximumAgeRatingStep(s2, m, prefs)
        s4 == ShorterThanStep(s3, m, prefs)
        s5 == FavoriteGenreStep(s4, m, prefs)
        s6 == LeastFavoriteDirectorStep(s5, m, prefs)
        s7 == FavoriteActorsStep(s6, m, prefs)
        s8 == FavoritePlotElementsStep(s7, m, prefs)
    IN  MinimumRottenTomatoesScoreStep(s8, m, prefs)

RECURSIVE ScoreFrom(_, _, _, _)
ScoreFrom(s, m, ps, i) ==
    IF i > Len(ps) THEN s
    ELSE ScoreFrom(PersonScore(s, m, ps[i].preferences), m, ps, i + 1)

\* let score = 0; for (const person of people) {...}; return score
calculateScore(m, ps) == ScoreFrom(Zero, m, ps, 1)

(***************************************************************************)
(* Inputs: the movies the metadata service knows, and the people.          *)
(***************************************************************************)
Rating(source, value) == [source |-> source, value |-> value]

Shawshank ==
    [imdbID |-> "tt0111161", title |-> "The Shawshank Redemption",
     year |-> <<"1", "9", "9", "4">>, genre |-> <<"D", "r", "a", "m", "a">>, director |-> <<"F", "r", "a", "n", "k", " ", "D", "a", "r", "a", "b", "o", "n", "t">>,
     actors |-> <<"T", "i", "m", " ", "R", "o", "b", "b", "i", "n", "s", ",", " ", "M", "o", "r", "g", "a", "n", " ", "F", "r", "e", "e", "m", "a", "n">>,
     plot |-> <<"a", " ", "b", "a", "n", "k", "e", "r", " ", "i", "s", " ", "s", "e", "n", "t", "e", "n", "c", "e", "d", " ", "t", "o", " ", "l", "i", "f", "e", " ", "i", "n", " ", "p", "r", "i", "s", "o", "n">>,
     rated |-> <<"R">>, runtime |-> <<"2", "h", " ", "2", "2", "m", "i", "n">>,
     ratings |-> <<Rating(RottenTomatoes, <<"9", "1", "%">>)>>]

Inception ==
    [imdbID |-> "tt1375666", title |-> "Inception",
     year |-> <<"2", "0", "1", "0">>, genre |-> <<"A", "c", "t", "i", "o", "n", ",", " ", "S", "c", "i", "-", "F", "i">>, director |-> <<"C", "h", "r", "i", "s", "t", "o", "p", "h", "e", "r", " ", "N", "o", "l", "a", "n">>,
     actors |-> <<"E", "l", "l", "i", "o", "t", " ", "P", "a", "g", "e", ",", " ", "T", "i", "m", " ", "R", "o", "b", "b", "i", "n", "s">>,
     plot |-> <<"A", " ", "T", "h", "i", "e", "f", " ", "s", "t", "e", "a", "l", "s", " ", "s", "e", "c", "r", "e", "t", "s", " ", "i", "n", " ", "a", " ", "D", "r", "e", "a", "m">>,
     rated |-> <<"P", "G", "-", "1", "3">>, runtime |-> <<"1", "4", "8", " ", "m", "i", "n">>,
     ratings |-> <<Rating(<<"I", "n", "t", "e", "r", "n", "e", "t", " ", "M", "o", "v", "i", "e", " ", "D", "a", "t", "a", "b", "a", "s", "e">>, <<"8", ".", "8", "/", "1", "0">>),
                   Rating(RottenTomatoes, <<"8", "7", "%">>)>>]

Short ==
    [imdbID |-> "tt0000003", title |-> "Short",
     year |-> <<"N", "/", "A">>, genre |-> <<"A", "n", "i", "m", "a", "t", "i", "o", "n">>, director |-> <<"N", "/", "A">>,
     actors |-> <<"N", "/", "A">>,
     plot |-> <<"L", "i", "f", "e", " ", "o", "f", " ", "a", " ", "d", "r", "e", "a", "m", "e", "r">>,
     rated |-> <<"G">>, runtime |-> <<"4", "5", "m", "i", "n">>,
     ratings |-> <<Rating(<<"I", "n", "t", "e", "r", "n", "e", "t", " ", "M", "o", "v", "i", "e", " ", "D", "a", "t", "a", "b", "a", "s", "e">>, <<"7", ".", "0", "/", "1", "0">>)>>]

Epic ==
    [imdbID |-> "tt0000004", title |-> "Epic",
     year |-> <<"1", "9", "9", "0">>, genre |-> <<"C", "o", "m", "e", "d", "y", ",", " ", "D", "r", "a", "m", "a">>, director |-> <<"F", "r", "a", "n", "k", " ", "D", "a", "r", "a", "b", "o", "n", "t">>,
     actors |-> <<"M", "o", "r", "g", "a", "n", " ", "F", "r", "e", "e", "m", "a", "n">>,
     plot |-> <<>>,
     rated |-> <<"P", "G">>, runtime |-> <<"3", "h">>,
     ratings |-> <<>>]

Catalog == {Shawshank, Inception, Short, Epic}

MovieIDs == {m.imdbID : m \in Catalog}

\* the movie the metadata service returns for an id
Details(id) == CHOOSE m \in Catalog : m.imdbID = id

Pref(value, weight) == [value |-> value, weight |-> weight]

Weights == {Fin(-3), Fin(5)}

\* the target values of each criterion
Targets(c) ==
    CASE c = "afterYear" -> {Fin(1990), Fin(2000)}
      [] c = "beforeYear" -> {Fin(2000)}
      [] c = "maximumAgeRating" -> {<<"P", "G", "-", "1", "3">>}
      [] c = "shorterThan" -> {<<"2", "h", " ", "3", "0", "m", "i", "n">>}
      [] c = "favoriteGenre" -> {<<"d", "r", "a", "m", "a">>, <<"s", "c", "i", "-", "f", "i">>}
      [] c = "leastFavoriteDirector" -> {<<"F", "r", "a", "n", "k", " ", "D", "a", "r", "a", "b", "o", "n", "t">>}
      [] c = "favoriteActors" -> {<<<<"T", "i", "m", " ", "R", "o", "b", "b", "i", "n", "s">>, <<"M", "o", "r", "g", "a", "n", " ", "F", "r", "e", "e", "m", "a", "n">>>>, <<<<"T", "o", "m", " ", "H", "a", "n", "k", "s">>>>}
      [] c = "favoritePlotElements" -> {<<<<"b", "a", "n", "k", "e", "r">>, <<"P", "R", "I", "S", "O", "N">>>>, <<<<"D", "r", "e", "a", "m">>, <<"l", "i", "f", "e">>>>}
      [] c = "minimumRottenTomatoesScore" -> {Fin(0), Fin(90)}

Person(name, prefs) == [name |-> name, preferences |-> prefs]

Nobody == Person("Nobody", <<>>)

\* the people with exactly one criterion
OneCriterion ==
    {Person("One", c :> Pref(v, w)) : <<c, v, w>> \in
        UNION {{c} \X Targets(c) \X Weights : c \in Criteria}}
\* the voter of the worked example: after 1990 (5) and at least 90% (3)
VoterA ==
    Person("A", [afterYear |-> Pref(Fin(1990), Fin(5)),
                 minimumRottenTomatoesScore |-> Pref(Fin(90), Fin(3))])

\* the voter of the second worked example
VoterB == Person("B", [leastFavoriteDirector |-> Pref(<<"F", "r", "a", "n", "k", " ", "D", "a", "r", "a", "b", "o", "n", "t">>, Fin(4))])

\* a voter with every criterion
VoterAll ==
    Person("All",
        [afterYear |-> Pref(Fin(2000), Fin(1)),
         beforeYear |-> Pref(Fin(2011), Fin(2)),
         maximumAgeRating |-> Pref(<<"P", "G">>, Fin(3)),
         shorterThan |-> Pref(<<"2", "h", " ", "3", "0", "m", "i", "n">>, Fin(4)),
         favoriteGenre |-> Pref(<<"d", "r", "a", "m", "a">>, Fin(5)),
         leastFavoriteDirector |-> Pref(<<"C", "h", "r", "i", "s", "t", "o", "p", "h", "e", "r", " ", "N", "o", "l", "a", "n">>, Fin(6)),
         favoriteActors |-> Pref(<<<<"T", "i", "m", " ", "R", "o", "b", "b", "i", "n", "s">>, <<"M", "o", "r", "g", "a", "n", " ", "F", "r", "e", "e", "m", "a", "n">>, <<"N", "/", "A">>>>, Fin(7)),
         favoritePlotElements |-> Pref(<<<<"l", "i", "f", "e">>, <<"a">>>>, Fin(8)),
         minimumRottenTomatoesScore |-> Pref(Fin(50), Fin(9))])

ActorsFan(w) ==
    Person("Fan", [favoriteActors |-> Pref(<<<<"T", "i", "m", " ", "R", "o", "b", "b", "i", "n", "s">>, <<"M", "o", "r", "g", "a", "n", " ", "F", "r", "e", "e", "m", "a", "n">>>>, Fin(w))])

SeqsUpTo(S, n) == UNION {[1..k -> S] : k \in 0..n}

\* the people calculateScore is applied to
ScorePersons == OneCriterion \cup {Nobody, VoterA, VoterAll}

\* the lists of people rankMovies is applied to
RankPeople ==
    {<<>>, <<Nobody>>, <<VoterA>>, <<ActorsFan(5)>>, <<VoterB, Nobody>>,
     <<ActorsFan(0), VoterA>>, <<Nobody, ActorsFan(-5), VoterA>>}

\* the lists of people the prompt of the main script holds
PromptPeople == {<<>>, <<VoterA>>, <<VoterB, ActorsFan(5)>>}

\* the runtime strings runtimeToMinutes is applied to
RuntimeChars == {"1", "2", "h", " ", "m"}

RuntimeInputs ==
    SeqsUpTo(RuntimeChars, MaxRuntimeLen)
        \cup {<<"2", "h", " ", "2", "2", "m", "i", "n">>, <<"4", "5", "m", "i", "n">>, <<"3", "h">>, <<"1", "4", "8", " ", "m", "i", "n">>, <<"N", "/", "A">>}

(***************************************************************************)
(* rankMovies                                                              *)
(***************************************************************************)
\* ScoredEntry with the score of the first person alone
ScoredEntryFirstPerson(m, ps) ==
    [id |-> m.imdbID, score |-> calculateScore(m, IF ps = <<>> THEN ps ELSE <<ps[1]>>)]

\* movie => ({id: movie.imdbID, score: calculateScore(movie, people)})
ScoredEntry(m, ps) == [id |-> m.imdbID, score |-> calculateScore(m, ps)]

RECURSIVE MapScoresFrom(_, _, _)
MapScoresFrom(movies, ps, i) ==
    IF i > Len(movies) THEN <<>>
    ELSE <<ScoredEntry(movies[i], ps)>> \o MapScoresFrom(movies, ps, i + 1)

\* movies.map(...)
MapScores(movies, ps) == MapScoresFrom(movies, ps, 1)

\* (a, b) => b.score - a.score, as Array.prototype.sort reads it: the sign of
\* the result, and a NaN result as +0
SortCompare(a, b) ==
    LET v == NumSub(b.score, a.score)
    IN  IF v.k = "nan" THEN 0 ELSE Sign(v)

\* whether the comparator is a consistent comparison function for the
\* entries (ECMAScript, Array.prototype.sort)
ConsistentComparator(entries) ==
    LET S == {entries[i] : i \in 1..Len(entries)}
        cmp == [a \in S, b \in S |-> SortCompare(a, b)]
    IN  /\ \A a \in S : cmp[a, a] = 0
        /\ \A a, b \in S :
              /\ (cmp[a, b] = 0) => (cmp[b, a] = 0)
              /\ (cmp[a, b] < 0) <=> (cmp[b, a] > 0)
        /\ \A a, b, c \in S :
              /\ (cmp[a, b] = 0 /\ cmp[b, c] = 0) => (cmp[a, c] = 0)
              /\ (cmp[a, b] < 0 /\ cmp[b, c] < 0) => (cmp[a, c] < 0)
              /\ (cmp[a, b] > 0 /\ cmp[b, c] > 0) => (cmp[a, c] > 0)

\* x put into a sorted sequence, behind every entry that does not sort after it
RECURSIVE InsertSorted(_, _)
InsertSorted(sorted, x) ==
    IF sorted = <<>> THEN <<x>>
    ELSE IF SortCompare(sorted[1], x) <= 0
         THEN <<sorted[1]>> \o InsertSorted(Tail(sorted), x)
         ELSE <<x>> \o sorted

\* the stable sort of the entries (Array.prototype.sort is stable)
RECURSIVE StableSort(_)
StableSort(entries) ==
    IF entries = <<>> THEN <<>>
    ELSE InsertSorted(StableSort(SubSeq(entries, 1, Len(entries) - 1)),
                      entries[Len(entries)])

\* how often x stands in the sequence s
Occurrences(s, x) == Cardinality({i \in 1..Len(s) : s[i] = x})

\* the orders the entries can be put in
Reorderings(entries) ==
    LET S == {entries[i] : i \in 1..Len(entries)}
    IN  {out \in [1..Len(entries) -> S] :
            \A x \in S : Occurrences(out, x) = Occurrences(entries, x)}

\* the results .sort(comparator) can give: the stable sort when the comparator
\* is consistent, and otherwise an order the implementation chooses
SortOutcomes(entries) ==
    IF ConsistentComparator(entries)
    THEN {StableSort(entries)}
    ELSE Reorderings(entries)

\* the results rankMovies(movies, people) can give
rankMovies(movies, ps) ==
    UNION {SortOutcomes(entries) : entries \in {MapScores(movies, ps)}}

(***************************************************************************)
(* Idle values of the variables a specification does not use.              *)
(***************************************************************************)
RuntimeIdle == runtime = <<>> /\ minutes = Zero

ScoreIdle == movie = Shawshank /\ idx = 0 /\ score = Zero

FlowIdle ==
    /\ promptMovies = <<>>
    /\ fetch = <<>>
    /\ ranking = <<>>
    /\ posted = FALSE
    /\ achieved = Zero

RankIdle == movieDetails = <<>> /\ rankedMovies = <<>>

(***************************************************************************)
(* runtimeToMinutes applied to a runtime string.                           *)
(***************************************************************************)
RuntimeInit ==
    /\ pc = "runtime"
    /\ runtime \in RuntimeInputs
    /\ minutes = Zero
    /\ people = <<>>
    /\ ScoreIdle /\ FlowIdle /\ RankIdle

CallRuntimeToMinutes ==
    /\ pc = "runtime"
    /\ minutes' = runtimeToMinutes(runtime)
    /\ pc' = "done"
    /\ UNCHANGED <<runtime, movie, people, idx, score, promptMovies, fetch,
                   movieDetails, rankedMovies, ranking, posted, achieved>>

RuntimeNext == CallRuntimeToMinutes

SpecRuntime == RuntimeInit /\ [][RuntimeNext]_vars

(***************************************************************************)
(* calculateScore applied to a movie and a list of people, one person of   *)
(* the loop at a time.                                                     *)
(***************************************************************************)
ScoreInit ==
    /\ pc = "score"
    /\ movie \in Catalog
    /\ people \in SeqsUpTo(ScorePersons, MaxPeople)
    /\ idx = 1
    /\ score = Zero
    /\ RuntimeIdle /\ FlowIdle /\ RankIdle

\* one pass of the loop body
ScorePerson ==
    /\ pc = "score"
    /\ idx <= Len(people)
    /\ score' = PersonScore(score, movie, people[idx].preferences)
    /\ idx' = idx + 1
    /\ UNCHANGED <<pc, runtime, minutes, movie, people, promptMovies, fetch,
                   movieDetails, rankedMovies, ranking, posted, achieved>>

\* return score
ScoreReturn ==
    /\ pc = "score"
    /\ idx > Len(people)
    /\ pc' = "done"
    /\ UNCHANGED <<runtime, minutes, movie, people, idx, score, promptMovies, fetch,
                   movieDetails, rankedMovies, ranking, posted, achieved>>

ScoreNext == ScorePerson \/ ScoreReturn

SpecScore == ScoreInit /\ [][ScoreNext]_vars

(***************************************************************************)
(* rankMovies applied to a list of movies and a list of people.            *)
(***************************************************************************)
RankInit ==
    /\ pc = "rank"
    /\ movieDetails \in SeqsUpTo(Catalog, MaxMovies)
    /\ people \in RankPeople
    /\ rankedMovies = <<>>
    /\ RuntimeIdle /\ ScoreIdle /\ FlowIdle

CallRankMovies ==
    /\ pc = "rank"
    /\ rankedMovies' \in rankMovies(movieDetails, people)
    /\ pc' = "done"
    /\ UNCHANGED <<runtime, minutes, movie, people, idx, score, promptMovies, fetch,
                   movieDetails, ranking, posted, achieved>>

RankNext == CallRankMovies

SpecRank == RankInit /\ [][RankNext]_vars

(***************************************************************************)
(* The main script.                                                        *)
(***************************************************************************)
\* the response statuses of the model; axios rejects a status outside 2xx
Statuses == {200, 201, 204, 404}

Init ==
    /\ pc = "getPrompt"
    /\ people = <<>>
    /\ RuntimeIdle /\ ScoreIdle /\ FlowIdle /\ RankIdle

\* await getPrompt(), and on its return one fetchMovieDetails per movie, all
\* issued before the script awaits Promise.all
getPrompt ==
    /\ pc = "getPrompt"
    /\ \E status \in Statuses :
         IF status = 200
         THEN /\ promptMovies' \in SeqsUpTo(MovieIDs, MaxMovies)
              /\ people' \in PromptPeople
              /\ fetch' = [i \in 1..Len(promptMovies') |-> "pending"]
              /\ pc' = "fetching"
         ELSE /\ pc' = "exit"
              /\ UNCHANGED <<promptMovies, people, fetch>>
    /\ UNCHANGED <<runtime, minutes, movie, idx, score, movieDetails, rankedMovies,
                   ranking, posted, achieved>>

\* the response to the i-th request arrives: process.exit(1) on a
\* status other than 200 (a status outside 2xx rejects, Promise.all rejects
\* with it, and the script ends on the uncaught error)
fetchMovieDetails(i) ==
    /\ pc = "fetching"
    /\ fetch[i] = "pending"
    /\ \E status \in Statuses :
         IF status = 200
         THEN fetch' = [fetch EXCEPT ![i] = "ok"] /\ pc' = pc
         ELSE fetch' = [fetch EXCEPT ![i] = "failed"] /\ pc' = "exit"
    /\ UNCHANGED <<runtime, minutes, movie, people, idx, score, promptMovies,
                   movieDetails, rankedMovies, ranking, posted, achieved>>

\* AllFetched as Promise.any would have it
AnyFetched == fetch = <<>> \/ \E i \in 1..Len(fetch) : fetch[i] = "ok"

\* Promise.all(...) is fulfilled
AllFetched == \A i \in 1..Len(fetch) : fetch[i] = "ok"

\* the script resumes with the movie details, ranks them and posts the ranking
RankAndSubmit ==
    /\ pc = "fetching"
    /\ AllFetched
    /\ movieDetails' = [i \in 1..Len(promptMovies) |-> Details(promptMovies[i])]
    /\ rankedMovies' \in rankMovies(movieDetails', people)
    /\ ranking' = [i \in 1..Len(rankedMovies') |-> rankedMovies'[i].id]
    /\ posted' = TRUE
    /\ pc' = "submitting"
    /\ UNCHANGED <<runtime, minutes, movie, people, idx, score, promptMovies, fetch,
                   achieved>>

\* the response to submitRanking arrives: the score achieved with status 201
submitRanking ==
    /\ pc = "submitting"
    /\ \E status \in Statuses :
         IF status = 201
         THEN achieved' \in {Fin(0), Fin(100)} /\ pc' = "done"
         ELSE achieved' = achieved /\ pc' = "exit"
    /\ UNCHANGED <<runtime, minutes, movie, people, idx, score, promptMovies, fetch,
                   movieDetails, rankedMovies, ranking, posted>>

Next ==
    \/ getPrompt
    \/ \E i \in 1..Len(fetch) : fetchMovieDetails(i)
    \/ RankAndSubmit
    \/ submitRanking

Spec == Init /\ [][Next]_vars

(***************************************************************************)
(* Properties.                                                             *)
(***************************************************************************)
\* x === y on numbers: NaN equals nothing
StrictEq(x, y) == x.k # "nan" /\ y.k # "nan" /\ x = y

\* C1: the sequence rankMovies returns is in non-increasing order of score:
\* of two adjacent entries, the earlier one's score is >= the later one's.
C1_SortedDescending ==
    pc = "done" =>
        \A i \in 1..(Len(rankedMovies) - 1) :
            NumGeq(rankedMovies[i].score, rankedMovies[i + 1].score)

SeqToBag(s) ==
    [x \in {s[i] : i \in 1..Len(s)} |-> Cardinality({i \in 1..Len(s) : s[i] = x})]

\* C2: rankMovies gives one entry per input movie, nothing filtered and
\* nothing deduplicated: the entries (id, score) of the output are, as a
\* multiset, the pairs (imdbID, calculateScore of the movie against all the
\* people) of the input.
C2_OneEntryPerMovie ==
    pc = "done" =>
        /\ Len(rankedMovies) = Len(movieDetails)
        /\ SeqToBag(rankedMovies) =
             SeqToBag([i \in 1..Len(movieDetails) |->
                          [id |-> movieDetails[i].imdbID,
                           score |-> calculateScore(movieDetails[i], people)]])

\* a ranking of a prompt that names a movie twice, by two or more people, that
\* is not in the order of the input
C2_Witness ==
    /\ pc = "done"
    /\ Len(people) >= 2
    /\ \E i, j \in 1..Len(movieDetails) :
          i # j /\ movieDetails[i].imdbID = movieDetails[j].imdbID
    /\ \E i \in 1..Len(movieDetails) : rankedMovies[i].id # movieDetails[i].imdbID

\* none of the cast entries of the movie is in the list
NoCastMatch(m, favoriteActors) ==
    \A i \in 1..Len(Split(m.actors, <<",", " ">>)) :
        \A j \in 1..Len(favoriteActors) : favoriteActors[j] # Split(m.actors, <<",", " ">>)[i]

\* C3: a favoriteActors criterion none of whose actors is in the movie's cast
\* contributes exactly 0 to the score.
C3_NoMatchContributesZero ==
    pc = "done" =>
        \A j \in 1..Len(people) :
            LET prefs == people[j].preferences
            IN  (Has(prefs, "favoriteActors") /\ NoCastMatch(movie, prefs.favoriteActors.value))
                    => FavoriteActorsContribution(movie, prefs.favoriteActors) = Zero

\* people with criterion c, of target v and weight 0, added to the j-th person
WithZeroWeight(ps, j, c, v) ==
    [ps EXCEPT ![j].preferences = @ @@ (c :> [value |-> v, weight |-> Zero])]

\* C4: adding any of the nine criteria with weight 0 (and any target) to a
\* person who did not have it leaves calculateScore(movie, people) unchanged.
C4_ZeroWeightChangesNothing ==
    pc = "done" =>
        \A j \in 1..Len(people) :
            \A c \in Criteria \ DOMAIN people[j].preferences :
                \A v \in Targets(c) :
                    calculateScore(movie, WithZeroWeight(people, j, c, v)) = score

\* the position of the first "h" of s, 0 when it has none
HourMarker(s) ==
    IF \E i \in 1..Len(s) : s[i] = "h"
    THEN CHOOSE i \in 1..Len(s) : s[i] = "h" /\ \A j \in 1..(i - 1) : s[j] # "h"
    ELSE 0

\* hours * 60 + minutes: the hours stand before the hour marker (0 without
\* one) and the minutes in what follows it (the whole string without one)
HoursAndMinutes(s) ==
    LET h == HourMarker(s)
        hours == IF h = 0 THEN Zero ELSE OrZero(ParseInt(SubSeq(s, 1, h - 1)))
        mins == OrZero(ParseInt(Tail_(s, h + 1)))
    IN  NumAdd(NumMul(hours, Fin(60)), mins)

\* C5: runtimeToMinutes returns hours*60 + minutes for every runtime string: an
\* input without "h" is 0 hours and its minutes ("45min" gives 45), an input
\* without a minute count is hours*60 ("3h" gives 180), "2h 22min" gives 142.
C5_HoursTimes60PlusMinutes ==
    pc = "done" => minutes = HoursAndMinutes(runtime)

\* the criterion c applied to the score s
CriterionStep(c, s, m, prefs) ==
    CASE c = "afterYear" -> AfterYearStep(s, m, prefs)
      [] c = "beforeYear" -> BeforeYearStep(s, m, prefs)
      [] c = "maximumAgeRating" -> MaximumAgeRatingStep(s, m, prefs)
      [] c = "shorterThan" -> ShorterThanStep(s, m, prefs)
      [] c = "favoriteGenre" -> FavoriteGenreStep(s, m, prefs)
      [] c = "leastFavoriteDirector" -> LeastFavoriteDirectorStep(s, m, prefs)
      [] c = "favoriteActors" -> FavoriteActorsStep(s, m, prefs)
      [] c = "favoritePlotElements" -> FavoritePlotElementsStep(s, m, prefs)
      [] c = "minimumRottenTomatoesScore" -> MinimumRottenTomatoesScoreStep(s, m, prefs)

\* ps with a person put in behind its first k people
InsertPerson(ps, k, person) == SubSeq(ps, 1, k) \o <<person>> \o SubSeq(ps, k + 1, Len(ps))

\* C6: a criterion a person does not have contributes exactly 0, so a person
\* without criteria contributes 0 to every movie: adding one anywhere in the
\* list of people changes no movie's score and not what rankMovies can return.
C6_AbsentContributesZero ==
    pc = "done" =>
        /\ \A i \in 1..Len(movieDetails) : \A j \in 1..Len(people) :
              \A c \in Criteria \ DOMAIN people[j].preferences :
                  CriterionStep(c, Zero, movieDetails[i], people[j].preferences) = Zero
        /\ \A scores \in {[i \in 1..Len(movieDetails) |->
                              calculateScore(movieDetails[i], people)]} :
              \A k \in 0..Len(people) :
                  LET more == InsertPerson(people, k, Nobody)
                  IN  /\ \A i \in 1..Len(movieDetails) :
                            calculateScore(movieDetails[i], more) = scores[i]
                      /\ rankedMovies \in rankMovies(movieDetails, more)

\* a ranking, by people one of whom has no criteria, in which some score is not 0
C6_Witness ==
    /\ pc = "done"
    /\ \E j \in 1..Len(people) : DOMAIN people[j].preferences = {}
    /\ \E i \in 1..Len(rankedMovies) : rankedMovies[i].score # Zero

\* whether element occurs in plot, letter case aside
OccursIn(element, plot) ==
    \E o \in 0..(Len(plot) - Len(element)) :
        \A j \in 1..Len(element) : LowerChar(plot[o + j]) = LowerChar(element[j])

\* the person whose turn it is has favoritePlotElements as the only criterion
OnlyPlotElements == 
    /\ pc = "score"
    /\ idx <= Len(people)
    /\ DOMAIN people[idx].preferences = {"favoritePlotElements"}

\* the entries of the person's list that occur in the movie's plot
PlotMatches(pref, m) ==
    Cardinality({i \in 1..Len(pref.value) : OccursIn(pref.value[i], m.plot)})

\* C7: for a person whose only criterion is favoritePlotElements, with list L
\* and weight w, calculateScore adds k*w to the score, k being the number of
\* entries of L that occur in the plot, letter case aside.
C7_PlotElementsLinear ==
    [][OnlyPlotElements =>
        LET pref == people[idx].preferences.favoritePlotElements
        IN  score' = NumAdd(score, NumMul(Fin(PlotMatches(pref, movie)), pref.weight))]_vars

\* the score after a person whose only criterion is favoritePlotElements, two
\* entries of whose list occur in the plot
C7_Witness ==
    /\ pc = "score"
    /\ idx > 1
    /\ DOMAIN people[idx - 1].preferences = {"favoritePlotElements"}
    /\ PlotMatches(people[idx - 1].preferences.favoritePlotElements, movie) = 2
    /\ score # Zero

\* the movie has no rating whose source is exactly "Rotten Tomatoes"
NoRottenTomatoes(m) == \A i \in 1..Len(m.ratings) : m.ratings[i].source # RottenTomatoes

\* C8: getRottenTomatoesScore returns 0 for a movie without a Rotten Tomatoes
\* rating, and minimumRottenTomatoesScore is evaluated against it: the criterion
\* adds its weight exactly when the extracted score is >= the target, so such
\* a movie gets the weight for a target <= 0 and nothing for a target > 0.
C8_MissingRatingIsZero ==
    pc \in {"score", "done"} =>
        /\ NoRottenTomatoes(movie) => getRottenTomatoesScore(movie) = Zero
        /\ \A j \in 1..Len(people) :
              LET prefs == people[j].preferences
                  pref == prefs.minimumRottenTomatoesScore
                  after == MinimumRottenTomatoesScoreStep(score, movie, prefs)
              IN  Has(prefs, "minimumRottenTomatoesScore") =>
                    /\ after = IF NumGeq(getRottenTomatoesScore(movie), pref.value)
                               THEN NumAdd(score, pref.weight)
                               ELSE score
                    /\ NoRottenTomatoes(movie) =>
                          after = IF pref.value.n <= 0
                                  THEN NumAdd(score, pref.weight)
                                  ELSE score

\* the score of a movie without a Rotten Tomatoes rating, after a person whose
\* only criterion is a minimumRottenTomatoesScore of 0 or less
C8_Witness ==
    /\ pc = "done"
    /\ NoRottenTomatoes(movie)
    /\ Len(people) = 1
    /\ DOMAIN people[1].preferences = {"minimumRottenTomatoesScore"}
    /\ people[1].preferences.minimumRottenTomatoesScore.value.n <= 0
    /\ score = people[1].preferences.minimumRottenTomatoesScore.weight

\* C9: in the main script, under every interleaving of the responses, the
\* ranking is computed and submitted only after every fetch of movie details
\* has succeeded; once a fetch has failed the run is over and no ranking is
\* submitted.
C9_RankOnlyAfterAllFetched ==
    /\ posted =>
          /\ \A i \in 1..Len(fetch) : fetch[i] = "ok"
          /\ Len(movieDetails) = Len(promptMovies)
          /\ \A i \in 1..Len(promptMovies) : movieDetails[i].imdbID = promptMovies[i]
    /\ pc \in {"getPrompt", "fetching", "exit"} /\ ~posted =>
          rankedMovies = <<>> /\ ranking = <<>>
    /\ (\E i \in 1..Len(fetch) : fetch[i] = "failed") => pc = "exit" /\ ~posted

\* a run that has submitted the ranking of three or more movies
C9_Witness ==
    /\ pc = "done"
    /\ posted
    /\ Len(promptMovies) >= 3
    /\ Len(ranking) = Len(promptMovies)

\* the entries of s whose score is v
WithScore(s, v) ==
    LET Test(e) == StrictEq(e.score, v)
    IN  SelectSeq(s, Test)

====
